---- MODULE Spec2Model ----
(***************************************************************************)
(* Model of schedule_view/schedule_view.py: the reconciliation of the      *)
(* command timeline, the command-event sheet and the SOT MP schedule       *)
(* tables into the list of page entries (get_page_entries, main), and the  *)
(* reading of the schedule tables (get_mp_scheds, get_mp_comment).         *)
(*                                                                         *)
(* Conventions.  A Python string that the code slices or rewrites is a     *)
(* sequence of tokens: a load name such as "MAR0124A" is the pair          *)
(* <<"MAR0124", "A">> (week[0:7], week[7]); a Params text is the sequence  *)
(* of its characters.  Dates are integers, ordered as the fixed-width date *)
(* strings are.  A dict is a function from its keys to values; a key the   *)
(* dict does not hold is not in its DOMAIN.  A masked table cell is the    *)
(* value Masked; Python's None is the value None.                          *)
(***************************************************************************)
EXTENDS Integers, Sequences, FiniteSets, TLC

VARIABLES
    pc,                 \* position in main / get_page_entries / get_mp_scheds
    start_time,         \* opt.start
    files,              \* the schedule tables, one per file of get_sched_files()
    dat,                \* get_mp_scheds: the list of per-file tables
    mp_dat,             \* the stacked schedule table
    mp_comment,         \* the last value returned by get_mp_comment
    kadi_cmds,          \* what kc.get_cmds(start=start_time) returns
    cmds,               \* the filtered load events
    run_loads,          \* the loads in order of first appearance
    sheet,              \* the command-event sheet as read
    events_flight,      \* the sheet's rows after start_time
    entries,            \* the list of entries being built
    events_flight_list, \* the entries of the remaining (passthrough) rows
    idx,                \* position of the running for loop
    rendered            \* the sequence main hands to template.render

vars == <<pc, start_time, files, dat, mp_dat, mp_comment, kadi_cmds, cmds,
          run_loads, sheet, events_flight, entries, events_flight_list, idx,
          rendered>>

----------------------------------------------------------------------------
(* Bounds of the model *)

MaxCmds == 3
MaxEvents == 2
MaxDate == 3
MaxFiles == 2
MaxRows == 3

----------------------------------------------------------------------------
(* Values *)

None == "None"
Masked == "--"

L1 == <<"MAR0124", "A">>
L2 == <<"MAR0824", "A">>
Loads == {L1, L2}
CMD_EVT == <<"CMD_EVT">>

RLTT == "RUNNING_LOAD_TERMINATION_TIME"
SCHED_STOP == "SCHEDULED_STOP_TIME"

NotRunEvents == {"Load not run", "Observing not run"}

\* The timeline records a run may see, without their dates: the two boundary
\* markers of each load, a load event entered by hand (source CMD_EVT) and a
\* command that is no load event.
CmdKinds ==
    { [type |-> "LOAD_EVENT", tlmsid |-> "None", source |-> l, params |-> p] :
        l \in Loads, p \in {RLTT, SCHED_STOP} }
    \cup { [type |-> "LOAD_EVENT", tlmsid |-> "None", source |-> CMD_EVT,
            params |-> "LOAD_NOT_RUN"],
           [type |-> "COMMAND_SW", tlmsid |-> "AONSMSAF", source |-> L1,
            params |-> "NSM"] }

\* The rows the command-event sheet may hold, without their dates.
EventKinds ==
    { [Event |-> "Load not run", Params |-> L1, pmask |-> FALSE,
       Comment |-> "replaced"],
      [Event |-> "Observing not run", Params |-> L1, pmask |-> FALSE,
       Comment |-> "scs107"],
      [Event |-> "Load not run", Params |-> L2, pmask |-> FALSE,
       Comment |-> "replaced"],
      [Event |-> "Command", Params |-> <<"a", ",", "b">>, pmask |-> FALSE,
       Comment |-> "bias"],
      [Event |-> "Safe mode", Params |-> <<>>, pmask |-> TRUE,
       Comment |-> "nsm"] }

Dates == 1..MaxDate

WithDate(r, d) == [date |-> d] @@ r

SeqsUpTo(S, n) == UNION { [1..k -> S] : k \in 0..n }

\* kadi returns the commands in date order; the model gives the j-th command
\* the date start_time + j - 1.
Timelines(st) ==
    { [j \in 1..Len(s) |-> WithDate(s[j], st + j - 1)] :
        s \in SeqsUpTo(CmdKinds, MaxCmds) }

Sheets ==
    SeqsUpTo({ WithDate(k, d) : k \in EventKinds, d \in Dates }, MaxEvents)

\* The schedule tables of the page run: the second row of the table has a blank
\* Week cell.
PageFiles ==
    << << [Week |-> "MAR0124", Version |-> "B", Comment |-> "late"],
          [Week |-> Masked, Version |-> "A", Comment |-> "replan"] >> >>

SchedRows ==
    { [Week |-> w, Version |-> vc[1], Comment |-> vc[2]] :
        w \in {Masked, "MAR0124", "MAR0824"},
        vc \in { <<"A", "note">>, <<"B", Masked>> } }

SchedFiles == SeqsUpTo(SeqsUpTo(SchedRows, MaxRows), MaxFiles)

----------------------------------------------------------------------------
(* Helpers for lists and dicts *)

Reverse(s) == [j \in 1..Len(s) |-> s[Len(s) + 1 - j]]

Has(e, k) == k \in DOMAIN e

\* dict.update(kv)
Update(e, kv) == kv @@ e

----------------------------------------------------------------------------
(* get_mp_scheds and get_mp_comment *)

\* "If all the comments are empty or masked, replace with empty string"
FixComments(tab) ==
    IF \A j \in 1..Len(tab) : tab[j].Comment = Masked
    THEN [j \in 1..Len(tab) |-> [tab[j] EXCEPT !.Comment = ""]]
    ELSE tab

\* The loop over the rows of one table, from row j on.  Reading a masked cell
\* gives the masked constant, which is not None.
RECURSIVE FillWeeks(_, _, _)
FillWeeks(tab, j, week_name) ==
    IF j > Len(tab) THEN tab
    ELSE LET ismasked == tab[j].Week = Masked
             row == IF ismasked /\ week_name # None
                    THEN [tab[j] EXCEPT !.Week = week_name]
                    ELSE tab[j]
             name == IF row.Week # None THEN row.Week ELSE week_name
         IN  FillWeeks([tab EXCEPT ![j] = row], j + 1, name)

\* Mutant of SchedTable: week_name is not reset between tables.
SchedTable_Carry(fs, f) ==
    LET carried == IF f > 1 /\ fs[f - 1] # <<>>
                   THEN FillWeeks(fs[f - 1], 1, None)[Len(fs[f - 1])].Week
                   ELSE None
    IN  Reverse(FillWeeks(FixComments(fs[f]), 1, carried))

\* One iteration of "for sched_file in files": the table appended to dat.
SchedTable(fs, f) == Reverse(FillWeeks(FixComments(fs[f]), 1, None))

RECURSIVE vstack(_)
vstack(tabs) == IF tabs = <<>> THEN <<>> ELSE Head(tabs) \o vstack(Tail(tabs))

get_mp_scheds(fs) == vstack([f \in 1..Len(fs) |-> SchedTable(fs, f)])

get_mp_comment(week, mp_scheds) ==
    LET mp_week == week[1]
        mp_match == { j \in 1..Len(mp_scheds) :
                        /\ mp_scheds[j].Week = mp_week
                        /\ mp_scheds[j].Version = week[2] }
    IN  IF mp_match # {}
        THEN mp_scheds[CHOOSE j \in mp_match : \A k \in mp_match : j <= k].Comment
        ELSE None

----------------------------------------------------------------------------
(* get_page_entries: reading the sources *)

CmdOk(c) ==
    /\ c.type = "LOAD_EVENT"
    /\ c.tlmsid = "None"
    /\ c.source # CMD_EVT

FilterCmds(cs) == SelectSeq(cs, CmdOk)

\* np.unique(..., return_index=True) gives, for each distinct source, the index
\* of its first occurrence; the sources are then taken in the order of these
\* indices.
FirstIndex(cs, src) ==
    CHOOSE j \in 1..Len(cs) :
        /\ cs[j].source = src
        /\ \A k \in 1..(j - 1) : cs[k].source # src

IsFirst(cs, j) == FirstIndex(cs, cs[j].source) = j

RECURSIVE FirstsFrom(_, _)
FirstsFrom(cs, j) ==
    IF j > Len(cs) THEN <<>>
    ELSE IF IsFirst(cs, j) THEN <<cs[j].source>> \o FirstsFrom(cs, j + 1)
         ELSE FirstsFrom(cs, j + 1)

\* Mutant of RunLoads: the distinct sources in the sorted order of np.unique.
RunLoads_Sorted(cs) ==
    LET srcs == { cs[j].source : j \in 1..Len(cs) }
    IN  (IF L1 \in srcs THEN <<L1>> ELSE <<>>) \o (IF L2 \in srcs THEN <<L2>> ELSE <<>>)

RunLoads(cs) == FirstsFrom(cs, 1)

AfterStart(st, evs) == SelectSeq(evs, LAMBDA r : r.date > st)

\* The for statements: where control goes when loop position k is reached.
AfterPass2(k, nEvents) ==
    IF k <= nEvents THEN <<"pass2", k>> ELSE <<"finish", 1>>

AfterPass1(k, nEvents) ==
    IF k <= nEvents THEN <<"pass1", k>> ELSE AfterPass2(1, nEvents)

AfterBuild(k, nLoads, nEvents) ==
    IF k <= nLoads THEN <<"build", k>> ELSE AfterPass1(1, nEvents)

ReadSources ==
    /\ pc = "start"
    /\ cmds' = FilterCmds(kadi_cmds)
    /\ run_loads' = RunLoads(cmds')
    /\ events_flight' = AfterStart(start_time, sheet)
    /\ mp_dat' = get_mp_scheds(files)
    /\ entries' = <<>>
    /\ LET to == AfterBuild(1, Len(run_loads'), Len(events_flight'))
       IN  pc' = to[1] /\ idx' = to[2]
    /\ UNCHANGED <<start_time, files, dat, mp_comment, kadi_cmds, sheet,
                   events_flight_list, rendered>>

----------------------------------------------------------------------------
(* get_page_entries: one entry per approved load *)

Matches(cs, week, event_type) ==
    { j \in 1..Len(cs) : cs[j].source = week /\ cs[j].params = event_type }

First(S) == CHOOSE j \in S : \A k \in S : j <= k

\* Mutant of Between: the interval closed at rltt.
Between_Closed(rows, lo, hi) == { j \in 1..Len(rows) : rows[j].date >= lo /\ rows[j].date < hi }

Between(rows, lo, hi) == { j \in 1..Len(rows) : rows[j].date > lo /\ rows[j].date < hi }

WithComment(e, week, mp) ==
    LET c == get_mp_comment(week, mp)
    IN  IF c # None THEN Update(e, [mp_comment |-> c]) ELSE e

\* The status keys of an entry that has both rltt and sched_stop.
WithStatus(e, cs, evs) ==
    IF Has(e, "rltt") /\ Has(e, "sched_stop")
    THEN IF /\ Between(cs, e.rltt, e.sched_stop) = {}
            /\ Between(evs, e.rltt, e.sched_stop) = {}
         THEN Update(e, [status |-> "Ran nominally"])
         ELSE Update(e, [status |-> "", ss_color |-> "grey"])
    ELSE e

WithSchedStop(e, cs, week) ==
    LET ss_match == Matches(cs, week, SCHED_STOP)
    IN  IF ss_match # {}
        THEN Update(e, [sched_stop |-> cs[First(ss_match)].date])
        ELSE e

Last(S) == CHOOSE j \in S : \A k \in S : j >= k

\* Mutant of LoadEntry: the last RLTT event of the load is taken, not the first.
LoadEntry_LastRltt(week, cs, evs, mp) ==
    LET entry == WithComment([products |-> week], week, mp)
        rltt_match == Matches(cs, week, RLTT)
    IN  IF rltt_match # {}
        THEN LET rltt == cs[Last(rltt_match)].date
                 e1 == Update(entry, [rltt |-> rltt, date |-> rltt])
             IN  <<WithStatus(WithSchedStop(e1, cs, week), cs, evs)>>
        ELSE <<>>

\* Mutant of LoadEntry: a load without RLTT is appended all the same, dated by
\* its first event.
LoadEntry_NoGate(week, cs, evs, mp) ==
    LET entry == WithComment([products |-> week], week, mp)
        rltt_match == Matches(cs, week, RLTT)
    IN  IF rltt_match # {}
        THEN LET rltt == cs[First(rltt_match)].date
                 e1 == Update(entry, [rltt |-> rltt, date |-> rltt])
             IN  <<WithStatus(WithSchedStop(e1, cs, week), cs, evs)>>
        ELSE <<WithSchedStop(Update(entry, [date |-> cs[FirstIndex(cs, week)].date]),
                             cs, week)>>

\* The body of "for week in run_loads": the list of entries it appends
\* (none when the load has no RLTT).
LoadEntry(week, cs, evs, mp) ==
    LET entry == WithComment([products |-> week], week, mp)
        rltt_match == Matches(cs, week, RLTT)
    IN  IF rltt_match # {}
        THEN LET rltt == cs[First(rltt_match)].date
                 e1 == Update(entry, [rltt |-> rltt, date |-> rltt])
             IN  <<WithStatus(WithSchedStop(e1, cs, week), cs, evs)>>
        ELSE <<>>

BuildEntry ==
    /\ pc = "build"
    /\ entries' = entries \o LoadEntry(run_loads[idx], cmds, events_flight, mp_dat)
    /\ LET to == AfterBuild(idx + 1, Len(run_loads), Len(events_flight))
       IN  pc' = to[1] /\ idx' = to[2]
    /\ UNCHANGED <<start_time, files, dat, mp_dat, mp_comment, kadi_cmds, cmds,
                   run_loads, sheet, events_flight, events_flight_list, rendered>>

----------------------------------------------------------------------------
(* get_page_entries: the rows of the command-event sheet *)

IsNotRun(row) == row.Event \in NotRunEvents

\* The entries a "not run" row may update: those of its load that have an rltt
\* (no entry holds an rltt of None, so e.get("rltt") is not None when the key
\* is there).
FoldTargets(es, row) ==
    { j \in 1..Len(es) : es[j].products = row.Params /\ Has(es[j], "rltt") }

NotRunFields(row) ==
    [date |-> row.date, products |-> row.Params, Event |-> row.Event,
     Comment |-> row.Comment]

\* Mutant of FoldNotRun: the row's entry is appended even when an entry of the
\* load is there.
FoldNotRun_AlwaysAppend(es, row, mp) ==
    IF IsNotRun(row)
    THEN Append(es, WithComment(Update(<< >>, NotRunFields(row)), row.Params, mp))
    ELSE es

\* Mutant of FoldNotRun: the entry found is replaced by a new dict instead of
\* being updated.
FoldNotRun_Replace(es, row, mp) ==
    IF IsNotRun(row)
    THEN LET has_entry == FoldTargets(es, row) # {}
             fresh == WithComment(Update([rltt |-> row.date], NotRunFields(row)),
                                  row.Params, mp)
         IN  IF has_entry
             THEN [es EXCEPT ![First(FoldTargets(es, row))] = fresh]
             ELSE Append(es, WithComment(Update(<< >>, NotRunFields(row)),
                                         row.Params, mp))
    ELSE es

\* Mutant of FoldNotRun: an entry that a row has updated is not updated again.
FoldNotRun_FirstWins(es, row, mp) ==
    IF IsNotRun(row)
    THEN LET has_entry == FoldTargets(es, row) # {}
             week_entry == IF has_entry THEN es[First(FoldTargets(es, row))]
                           ELSE << >>
             updated == IF Has(week_entry, "Event") THEN week_entry
                        ELSE WithComment(Update(week_entry, NotRunFields(row)),
                                         row.Params, mp)
         IN  IF has_entry
             THEN [es EXCEPT ![First(FoldTargets(es, row))] = updated]
             ELSE Append(es, updated)
    ELSE es

\* The body of "for entry in events_flight" for one row: the list of entries
\* after it.
FoldNotRun(es, row, mp) ==
    IF IsNotRun(row)
    THEN LET has_entry == FoldTargets(es, row) # {}
             week_entry == IF has_entry THEN es[First(FoldTargets(es, row))]
                           ELSE << >>
             updated == WithComment(Update(week_entry, NotRunFields(row)),
                                    row.Params, mp)
         IN  IF has_entry
             THEN [es EXCEPT ![First(FoldTargets(es, row))] = updated]
             ELSE Append(es, updated)
    ELSE es

Pass1Row ==
    /\ pc = "pass1"
    /\ entries' = FoldNotRun(entries, events_flight[idx], mp_dat)
    /\ LET to == AfterPass1(idx + 1, Len(events_flight))
       IN  pc' = to[1] /\ idx' = to[2]
    /\ events_flight_list' = IF pc' = "pass1" THEN events_flight_list ELSE <<>>
    /\ UNCHANGED <<start_time, files, dat, mp_dat, mp_comment, kadi_cmds, cmds,
                   run_loads, sheet, events_flight, rendered>>

\* str.replace(",", ", ")
RECURSIVE CommaSpace(_)
CommaSpace(text) ==
    IF text = <<>> THEN <<>>
    ELSE IF Head(text) = "," THEN <<",", " ">> \o CommaSpace(Tail(text))
         ELSE <<Head(text)>> \o CommaSpace(Tail(text))

\* dict(zip(events_flight.colnames, row)), Params reformatted, source tagged
Passthrough(row) ==
    LET entry == [date |-> row.date, Event |-> row.Event, Params |-> row.Params,
                  Comment |-> row.Comment]
        spaced == IF Has(entry, "Params") /\ ~row.pmask
                  THEN [entry EXCEPT !.Params = CommaSpace(entry.Params)]
                  ELSE entry
    IN  Update(spaced, [source |-> "cmd_evt"])

\* Mutant of KeepRow: the "not run" rows are not skipped.
KeepRow_All(list, row) == Append(list, Passthrough(row))

\* The body of the loop over the remaining rows: the list after one row.
KeepRow(list, row) ==
    IF IsNotRun(row) THEN list ELSE Append(list, Passthrough(row))

Pass2Row ==
    /\ pc = "pass2"
    /\ events_flight_list' = KeepRow(events_flight_list, events_flight[idx])
    /\ LET to == AfterPass2(idx + 1, Len(events_flight))
       IN  pc' = to[1] /\ idx' = to[2]
    /\ UNCHANGED <<start_time, files, dat, mp_dat, mp_comment, kadi_cmds, cmds,
                   run_loads, sheet, events_flight, entries, rendered>>

----------------------------------------------------------------------------
(* get_page_entries: links and order; main *)

\* load_name_to_mp_dir is a library function; its result is kept symbolic.
get_starcheck_url(week) ==
    <<"https://icxc.harvard.edu/mp/mplogs", week, "starcheck.html">>

WithUrl(e) ==
    IF Has(e, "products")
    THEN Update(e, [starcheck_url |-> get_starcheck_url(e.products)])
    ELSE e

\* list.sort(key=date) is stable: an entry goes after those of the same date
\* that precede it.
RECURSIVE Insert(_, _)
Insert(e, sorted) ==
    IF sorted = <<>> THEN <<e>>
    ELSE IF e.date < Head(sorted).date THEN <<e>> \o sorted
         ELSE <<Head(sorted)>> \o Insert(e, Tail(sorted))

RECURSIVE SortByDate(_)
SortByDate(es) ==
    IF es = <<>> THEN <<>>
    ELSE Insert(es[Len(es)], SortByDate(SubSeq(es, 1, Len(es) - 1)))

\* entries.extend(...), the starcheck links, the sort: the list returned.
Returned(es, list) ==
    LET all == es \o list
    IN  SortByDate([j \in 1..Len(all) |-> WithUrl(all[j])])

Finish ==
    /\ pc = "finish"
    /\ entries' = Returned(entries, events_flight_list)
    /\ pc' = "returned"
    /\ UNCHANGED <<start_time, files, dat, mp_dat, mp_comment, kadi_cmds, cmds,
                   run_loads, sheet, events_flight, events_flight_list, idx,
                   rendered>>

\* Mutant of ForTemplate: the list is not reversed.
ForTemplate_NoReverse(es) == es

\* entries[::-1]
ForTemplate(es) == Reverse(es)

Render ==
    /\ pc = "returned"
    /\ rendered' = ForTemplate(entries)
    /\ pc' = "rendered"
    /\ UNCHANGED <<start_time, files, dat, mp_dat, mp_comment, kadi_cmds, cmds,
                   run_loads, sheet, events_flight, entries, events_flight_list,
                   idx>>

----------------------------------------------------------------------------
(* The run of main *)

StartTime == 1

Init ==
    /\ pc = "start"
    /\ start_time = StartTime
    /\ files = PageFiles
    /\ kadi_cmds \in Timelines(StartTime)
    /\ sheet \in Sheets
    /\ dat = <<>>
    /\ mp_dat = <<>>
    /\ mp_comment = None
    /\ cmds = <<>>
    /\ run_loads = <<>>
    /\ events_flight = <<>>
    /\ entries = <<>>
    /\ events_flight_list = <<>>
    /\ idx = 1
    /\ rendered = <<>>

Next ==
    \/ ReadSources
    \/ BuildEntry
    \/ Pass1Row
    \/ Pass2Row
    \/ Finish
    \/ Render

Spec == Init /\ [][Next]_vars

----------------------------------------------------------------------------
(* get_mp_scheds and get_mp_comment on their own *)

ReadTable ==
    /\ pc = "mp_files"
    /\ idx <= Len(files)
    /\ dat' = Append(dat, SchedTable(files, idx))
    /\ idx' = idx + 1
    /\ UNCHANGED <<pc, start_time, files, mp_dat, mp_comment, kadi_cmds, cmds,
                   run_loads, sheet, events_flight, entries, events_flight_list,
                   rendered>>

StackTables ==
    /\ pc = "mp_files"
    /\ idx > Len(files)
    /\ mp_dat' = vstack(dat)
    /\ pc' = "mp_done"
    /\ UNCHANGED <<start_time, files, dat, mp_comment, kadi_cmds, cmds,
                   run_loads, sheet, events_flight, entries, events_flight_list,
                   idx, rendered>>

LookUpComment ==
    /\ pc = "mp_done"
    /\ \E week \in Loads : mp_comment' = get_mp_comment(week, mp_dat)
    /\ pc' = "mp_looked_up"
    /\ UNCHANGED <<start_time, files, dat, mp_dat, kadi_cmds, cmds,
                   run_loads, sheet, events_flight, entries, events_flight_list,
                   idx, rendered>>

InitMp ==
    /\ pc = "mp_files"
    /\ start_time = StartTime
    /\ files \in SchedFiles
    /\ kadi_cmds = <<>>
    /\ sheet = <<>>
    /\ dat = <<>>
    /\ mp_dat = <<>>
    /\ mp_comment = None
    /\ cmds = <<>>
    /\ run_loads = <<>>
    /\ events_flight = <<>>
    /\ entries = <<>>
    /\ events_flight_list = <<>>
    /\ idx = 1
    /\ rendered = <<>>

NextMp ==
    \/ ReadTable
    \/ StackTables
    \/ LookUpComment

SpecMp == InitMp /\ [][NextMp]_vars

----------------------------------------------------------------------------
(* The claims.  Those about the list returned are stated over the sources as  *)
(* read (kadi_cmds, sheet); those about one step of a loop, over the row the  *)
(* step handles.  A row of the sheet is one the run considers: one dated      *)
(* after start_time.                                                          *)

Min(S) == CHOOSE x \in S : \A y \in S : x <= y
Max(S) == CHOOSE x \in S : \A y \in S : x >= y

\* The load events of the timeline: the records the code keeps.
LoadEvents ==
    { j \in 1..Len(kadi_cmds) :
        /\ kadi_cmds[j].type = "LOAD_EVENT"
        /\ kadi_cmds[j].tlmsid = "None"
        /\ kadi_cmds[j].source # CMD_EVT }

RlttEvents(l) ==
    { j \in LoadEvents : kadi_cmds[j].source = l /\ kadi_cmds[j].params = RLTT }

StopEvents(l) ==
    { j \in LoadEvents : kadi_cmds[j].source = l /\ kadi_cmds[j].params = SCHED_STOP }

\* The rows of the sheet the run considers: those after start_time.
SheetRows == { i \in 1..Len(sheet) : sheet[i].date > start_time }

NotRunRows(l) ==
    { i \in SheetRows : sheet[i].Event \in NotRunEvents /\ sheet[i].Params = l }

OtherRows == { i \in SheetRows : sheet[i].Event \notin NotRunEvents }

EntriesOf(l) ==
    { j \in 1..Len(entries) : Has(entries[j], "products") /\ entries[j].products = l }

LoadEntriesOf(l) == { j \in EntriesOf(l) : Has(entries[j], "rltt") }

\* C1 as stated: in the list returned, the entry of every load with an RLTT
\* event has date = rltt, also when "not run" rows name the load.
C1_DateIsRltt ==
    pc = "returned" =>
        \A l \in Loads : RlttEvents(l) # {} =>
            \E j \in LoadEntriesOf(l) :
                /\ entries[j].rltt = kadi_cmds[Min(RlttEvents(l))].date
                /\ entries[j].date = entries[j].rltt

\* C1 amended: in the list returned, the entry of every load with an RLTT
\* event has rltt = the date of the load's first RLTT event, and date = rltt
\* unless a "not run" row names the load, in which case date is the date of
\* the last such row of the sheet.
C1_DateIsRlttUnlessNotRun ==
    pc = "returned" =>
        \A l \in Loads : RlttEvents(l) # {} =>
            \E j \in LoadEntriesOf(l) :
                /\ entries[j].rltt = kadi_cmds[Min(RlttEvents(l))].date
                /\ entries[j].date =
                      IF NotRunRows(l) = {} THEN entries[j].rltt
                      ELSE sheet[Max(NotRunRows(l))].date

C1_Witness ==
    /\ pc = "returned"
    /\ \E l \in Loads :
          /\ Cardinality(RlttEvents(l)) > 1
          /\ NotRunRows(l) # {}
          /\ \E j \in LoadEntriesOf(l) : entries[j].date # entries[j].rltt
    /\ \E l \in Loads :
          /\ RlttEvents(l) # {}
          /\ NotRunRows(l) = {}

\* C2 as stated: a load without an RLTT event has no entry in the list
\* returned, whatever the sheet holds.
C2_NoEntryWithoutRltt ==
    pc = "returned" =>
        \A l \in Loads : RlttEvents(l) = {} => EntriesOf(l) = {}

\* C2 amended: a load without an RLTT event has no load entry in the list
\* returned (no entry of it carries rltt, sched_stop or status); the entries
\* that name it are the standalone entries of the "not run" rows that name it,
\* one per row.
C2_NoLoadEntryWithoutRltt ==
    pc = "returned" =>
        \A l \in Loads : RlttEvents(l) = {} =>
            /\ \A j \in EntriesOf(l) :
                  /\ ~Has(entries[j], "rltt")
                  /\ ~Has(entries[j], "sched_stop")
                  /\ ~Has(entries[j], "status")
                  /\ Has(entries[j], "Event")
                  /\ entries[j].Event \in NotRunEvents
            /\ Cardinality(EntriesOf(l)) = Cardinality(NotRunRows(l))

C2_Witness ==
    /\ pc = "returned"
    /\ \E l \in Loads :
          /\ RlttEvents(l) = {}
          /\ StopEvents(l) # {}
          /\ NotRunRows(l) # {}
          /\ EntriesOf(l) # {}

\* C3: in the list returned, every entry with both rltt and sched_stop has a
\* status, which is "Ran nominally" if and only if no load event of the
\* timeline and no row of the sheet has a date strictly between rltt and
\* sched_stop; otherwise the status is "" and ss_color is "grey".
Interrupted(lo, hi) ==
    \/ \E j \in LoadEvents : kadi_cmds[j].date > lo /\ kadi_cmds[j].date < hi
    \/ \E i \in 1..Len(sheet) : sheet[i].date > lo /\ sheet[i].date < hi

Row == events_flight[idx]

Targets ==
    { j \in 1..Len(entries) :
        /\ Has(entries[j], "products")
        /\ entries[j].products = Row.Params
        /\ Has(entries[j], "rltt") }

\* C4: a "not run" row whose load has an entry with an rltt updates that
\* entry's date, Event and Comment and leaves the length of the list as it is;
\* otherwise the list grows by exactly one entry, which carries date, products,
\* Event and Comment and neither rltt nor status.
C4_MergeOrAppend ==
    [][ pc = "pass1" /\ Row.Event \in NotRunEvents =>
          IF Targets # {}
          THEN /\ Len(entries') = Len(entries)
               /\ entries'[Min(Targets)].date = Row.date
               /\ entries'[Min(Targets)].Event = Row.Event
               /\ entries'[Min(Targets)].Comment = Row.Comment
               /\ entries'[Min(Targets)].products = Row.Params
          ELSE /\ Len(entries') = Len(entries) + 1
               /\ SubSeq(entries', 1, Len(entries)) = entries
               /\ LET new == entries'[Len(entries')]
                  IN  /\ new.date = Row.date
                      /\ new.products = Row.Params
                      /\ new.Event = Row.Event
                      /\ new.Comment = Row.Comment
                      /\ ~Has(new, "rltt")
                      /\ ~Has(new, "status") ]_vars

\* Both cases have happened: a load entry updated by a row, and a standalone
\* entry.
C4_Witness ==
    /\ pc = "pass2"
    /\ Len(entries) = 2
    /\ \E j \in 1..Len(entries) : Has(entries[j], "rltt") /\ Has(entries[j], "Event")
    /\ \E j \in 1..Len(entries) : ~Has(entries[j], "rltt") /\ Has(entries[j], "Event")

\* C5: the sequence handed to the renderer is in descending date order and is
\* a permutation of the entries the pipeline built: the sort permutes the
\* extended list, the reversal permutes the list returned.
Count(sq, x) == Cardinality({ j \in 1..Len(sq) : sq[j] = x })

IsPermutation(a, b) ==
    /\ Len(a) = Len(b)
    /\ \A j \in 1..Len(a) : Count(a, a[j]) = Count(b, a[j])

Descending(sq) == \A j \in 1..(Len(sq) - 1) : sq[j].date >= sq[j + 1].date

WithoutUrl(e) == [k \in DOMAIN e \ {"starcheck_url"} |-> e[k]]

WithoutUrls(sq) == [j \in 1..Len(sq) |-> WithoutUrl(sq[j])]

C5_DescendingPermutation ==
    [][ /\ pc = "finish" =>
              IsPermutation(WithoutUrls(entries'), entries \o events_flight_list)
        /\ pc = "returned" =>
              /\ Descending(rendered')
              /\ IsPermutation(rendered', entries) ]_vars

C5_Witness ==
    /\ pc = "rendered"
    /\ Len(rendered) >= 3
    /\ rendered[1].date > rendered[Len(rendered)].date
    /\ \E j \in 1..Len(rendered) : Has(rendered[j], "rltt")
    /\ \E j \in 1..Len(rendered) : Has(rendered[j], "source")

\* C7: a "not run" row that updates a load entry leaves the entry's rltt,
\* sched_stop, status and ss_color as they were; of its keys only date,
\* products, Event, Comment and mp_comment may change; no other entry changes.
FoldedKeys == {"date", "products", "Event", "Comment", "mp_comment"}

C7_FoldFrame ==
    [][ pc = "pass1" /\ Row.Event \in NotRunEvents /\ Targets # {} =>
          LET t == Min(Targets)
          IN  /\ \A k \in {"rltt", "sched_stop", "status", "ss_color"} :
                    /\ Has(entries'[t], k) <=> Has(entries[t], k)
                    /\ Has(entries[t], k) => entries'[t][k] = entries[t][k]
              /\ \A k \in (DOMAIN entries[t] \cup DOMAIN entries'[t]) \ FoldedKeys :
                    /\ Has(entries'[t], k) /\ Has(entries[t], k)
                    /\ entries'[t][k] = entries[t][k]
              /\ Len(entries') = Len(entries)
              /\ \A j \in 1..Len(entries) : j # t => entries'[j] = entries[j] ]_vars

\* A load entry with a status, updated by a row, next to another load entry.
C7_Witness ==
    /\ pc = "pass2"
    /\ Len(entries) >= 2
    /\ \E j \in 1..Len(entries) :
          /\ Has(entries[j], "status")
          /\ Has(entries[j], "Event")
          /\ entries[j].date # entries[j].rltt

\* C8: a row that is no "not run" row yields exactly one new entry, tagged
\* source = "cmd_evt" and carrying the row's fields (Params with a space after
\* every comma); it changes no entry of the list; these entries join the list
\* only when the first loop over the sheet is over, which never sees one.
StripSpaces(text) == SelectSeq(text, LAMBDA c : c # " ")

Tagged(sq) == { j \in 1..Len(sq) : Has(sq[j], "source") }

C8_Passthrough ==
    [][ /\ pc \in {"start", "build", "pass1"} =>
              /\ events_flight_list = <<>>
              /\ Tagged(entries) = {}
        /\ pc = "pass2" =>
              /\ entries' = entries
              /\ IF Row.Event \notin NotRunEvents
                 THEN /\ Len(events_flight_list') = Len(events_flight_list) + 1
                      /\ SubSeq(events_flight_list', 1, Len(events_flight_list))
                            = events_flight_list
                      /\ LET new == events_flight_list'[Len(events_flight_list')]
                         IN  /\ new.source = "cmd_evt"
                             /\ new.date = Row.date
                             /\ new.Event = Row.Event
                             /\ new.Comment = Row.Comment
                             /\ StripSpaces(new.Params) = Row.Params
                             /\ ~Has(new, "products")
                 ELSE events_flight_list' = events_flight_list
        /\ pc = "finish" =>
              /\ Cardinality(Tagged(entries')) = Cardinality(OtherRows)
              /\ \A j \in Tagged(entries') : entries'[j].source = "cmd_evt"
              /\ \A j \in 1..Len(entries) :
                    Count(WithoutUrls(entries'), entries[j]) = Count(entries, entries[j])
      ]_vars

C8_Witness ==
    /\ pc = "returned"
    /\ Cardinality(Tagged(entries)) = 1
    /\ \E j \in Tagged(entries) : Len(entries[j].Params) = 4
    /\ \E j \in 1..Len(entries) : Has(entries[j], "rltt") /\ Has(entries[j], "Event")

\* C9: the loop over run_loads leaves exactly one entry per load that has an
\* RLTT event, in the order in which the loads first appear as source among the
\* load events; a load with an RLTT and no SCHEDULED_STOP_TIME has its entry,
\* without sched_stop and without status; and at no time do two entries of
\* the list carry an rltt for the same load.
FirstEvent(l) == Min({ j \in LoadEvents : kadi_cmds[j].source = l })

BuiltEntries ==
    /\ Len(entries) = Cardinality({ l \in Loads : RlttEvents(l) # {} })
    /\ \A l \in Loads : RlttEvents(l) # {} => Cardinality(LoadEntriesOf(l)) = 1
    /\ \A j \in 1..Len(entries) :
          LET l == entries[j].products
          IN  /\ RlttEvents(l) # {}
              /\ Has(entries[j], "rltt")
              /\ StopEvents(l) = {} =>
                    ~Has(entries[j], "sched_stop") /\ ~Has(entries[j], "status")
              /\ StopEvents(l) # {} =>
                    /\ Has(entries[j], "sched_stop")
                    /\ entries[j].sched_stop = kadi_cmds[Min(StopEvents(l))].date
    /\ \A a, b \in 1..Len(entries) :
          a < b => FirstEvent(entries[a].products) < FirstEvent(entries[b].products)

OneLoadEntryPerLoad == \A l \in Loads : Cardinality(LoadEntriesOf(l)) <= 1

C9_OneEntryPerLoadInOrder ==
    [][ /\ pc \in {"start", "build"} /\ pc' \notin {"start", "build"} => BuiltEntries'
        /\ OneLoadEntryPerLoad' ]_vars

\* Two loads, the later name first, its RLTT after the other's; one has no
\* SCHEDULED_STOP_TIME.
C9_Witness ==
    /\ pc \in {"pass1", "pass2", "finish"}
    /\ Len(entries) >= 2
    /\ entries[1].products = L2
    /\ entries[2].products = L1
    /\ Has(entries[1], "rltt") /\ Has(entries[2], "rltt")
    /\ entries[1].rltt > entries[2].rltt
    /\ ~Has(entries[2], "sched_stop")
    /\ Has(entries[1], "sched_stop")

\* C10: when several "not run" rows name a load that has an entry with an
\* rltt, the list returned holds one entry of that load, with the date, Event
\* and Comment of the last such row of the sheet.
C10_LastRowWins ==
    pc = "returned" =>
        \A l \in Loads :
            RlttEvents(l) # {} /\ Cardinality(NotRunRows(l)) >= 2 =>
                /\ Cardinality(EntriesOf(l)) = 1
                /\ \A j \in EntriesOf(l) :
                      /\ Has(entries[j], "rltt")
                      /\ entries[j].date = sheet[Max(NotRunRows(l))].date
                      /\ entries[j].Event = sheet[Max(NotRunRows(l))].Event
                      /\ entries[j].Comment = sheet[Max(NotRunRows(l))].Comment

C10_Witness ==
    /\ pc = "returned"
    /\ \E l \in Loads :
          /\ RlttEvents(l) # {}
          /\ Cardinality(NotRunRows(l)) = 2
          /\ sheet[Min(NotRunRows(l))].Event # sheet[Max(NotRunRows(l))].Event
          /\ sheet[Min(NotRunRows(l))].date > sheet[Max(NotRunRows(l))].date
          /\ Cardinality(EntriesOf(l)) = 1


\* C6: in get_mp_scheds, within one table, a row with a blank Week cell gets
\* the Week of the nearest preceding row (in file order) whose Week cell is
\* not blank; a row with a Week keeps it; the fill does not cross from one
\* table into the next, so the blank rows that lead a table stay blank.
FilledWeek(tab, r) ==
    LET named == { q \in 1..r : tab[q].Week # Masked }
    IN  IF named # {} THEN tab[Max(named)].Week ELSE Masked

RECURSIVE RowsBefore(_)
RowsBefore(f) == IF f = 1 THEN 0 ELSE RowsBefore(f - 1) + Len(files[f - 1])

C6_ForwardFill ==
    /\ \A f \in 1..Len(dat) :
          /\ Len(dat[f]) = Len(files[f])
          /\ \A r \in 1..Len(files[f]) :
                LET row == dat[f][Len(files[f]) + 1 - r]
                IN  /\ row.Week = FilledWeek(files[f], r)
                    /\ row.Version = files[f][r].Version
    /\ pc \in {"mp_done", "mp_looked_up"} =>
          \A f \in 1..Len(files) : \A r \in 1..Len(files[f]) :
              mp_dat[RowsBefore(f) + Len(files[f]) + 1 - r].Week
                  = FilledWeek(files[f], r)

\* A table whose blank row follows two different weeks, and after it a table
\* that starts with a blank row.
C6_Witness ==
    /\ pc = "mp_done"
    /\ Len(files) = 2
    /\ Len(files[1]) = 3 /\ Len(files[2]) >= 2
    /\ files[1][1].Week = "MAR0124"
    /\ files[1][2].Week = "MAR0824"
    /\ files[1][3].Week = Masked
    /\ files[2][1].Week = Masked
    /\ files[2][2].Week = "MAR0124"
    /\ mp_dat[1].Week = "MAR0824"
    /\ mp_dat[Len(mp_dat)].Week = Masked

====
